---- MODULE Spec2Model ----
(***************************************************************************)
(* Model of first_boot/expand_partitions.py: the first-boot script that    *)
(* validates the partition layout of the root device against PART_TABLE,   *)
(* computes one target size for the dynamic partitions and then walks the  *)
(* template back to front, moving and resizing partitions.                 *)
(*                                                                         *)
(* Geometry is in sectors, with inclusive end sectors as in libparted      *)
(* (length = end - start + 1).  The partition table provider is modelled   *)
(* by what the script relies on: free-space regions are the maximal gaps   *)
(* between partitions, addPartition/maximizePartition with an exact        *)
(* constraint succeed exactly when the geometry is inside the device and   *)
(* collides with no other partition, and commit copies the in-memory table *)
(* to the device.                                                          *)
(***************************************************************************)
EXTENDS Integers, Sequences, FiniteSets, TLC

VARIABLES
    device_size,            \* device.getLength(), sectors
    sec_size,               \* device.sectorSize, bytes
    table,                  \* in-memory partition table (parted.Disk)
    ondisk,                 \* partition table as last committed to the device
    uncommitted,            \* structural changes made since the last commit
    copies,                 \* raw copies made so far: <<[src, dst, len]>>
    mutations,              \* number of chunk writes and table changes so far
    pc,                     \* position of the script
    err,                    \* the fatal error the run ended in, "" if none
    n,                      \* loop variable of the reconciliation loop
    new_dynamic_part_size,  \* the target size computed at startup
    free_space,             \* the free region the current iteration uses
    mv,                     \* frame of move_partition / create_partition
    rs,                     \* frame of resize_partition
    run,                    \* how many times the script was started
    snap                    \* what the device held when this run started

vars == <<device_size, sec_size, table, ondisk, uncommitted, copies, mutations,
          pc, err, n, new_dynamic_part_size, free_space, mv, rs, run, snap>>

-----------------------------------------------------------------------------
(* Bounds of the model *)

MaxFixedLen == 2
MaxDynLen == 3
MaxFree == 10
MaxRuns == 2

-----------------------------------------------------------------------------
(* Values *)

NoGeom == [start |-> -1, end |-> -1]
NoPart == [number |-> 0, start |-> -1, end |-> -1, fs |-> ""]
NoMove == [partition |-> NoPart, start_arg |-> -1, end_arg |-> -1,
           start |-> -1, end |-> -1, written |-> 0, fscode |-> "", ret |-> ""]
NoResize == [partition |-> NoPart, end |-> -1]

Min(a, b) == IF a <= b THEN a ELSE b

\* parted.Geometry.getLength() / Partition.getLength(): end is inclusive
getLength(g) == g.end - g.start + 1

\* 4 GiB in sectors.  sec_size is a power of two, so the division is exact
\* and 4 * (2^30 / sec_size) = 2^32 / sec_size.
MIN_OS_PART_SIZE == 4 * ((1024 * 1024 * 1024) \div sec_size)

\* the template as it would be with a minimum size on its first row
PART_TABLE_leadingDynamic ==
    << [fs |-> "fat",  partfs |-> "fat32", min_size |-> MIN_OS_PART_SIZE],
       [fs |-> "ext4", partfs |-> "ext2",  min_size |-> MIN_OS_PART_SIZE],
       [fs |-> "ext4", partfs |-> "ext2",  min_size |-> MIN_OS_PART_SIZE],
       [fs |-> "fat",  partfs |-> "fat32", min_size |-> 0] >>

PART_TABLE ==
    << [fs |-> "fat",  partfs |-> "fat32", min_size |-> 0],
       [fs |-> "ext4", partfs |-> "ext2",  min_size |-> MIN_OS_PART_SIZE],
       [fs |-> "ext4", partfs |-> "ext2",  min_size |-> MIN_OS_PART_SIZE],
       [fs |-> "fat",  partfs |-> "fat32", min_size |-> 0] >>

BUFF_SIZE == 64 * 1024

\* The copy loop moves min(remaining, BUFF_SIZE) bytes per iteration.  The
\* model counts in sectors: BUFF_SIZE / sec_size sectors per step, and one
\* sector per step when a sector is at least as large as the buffer.
ChunkSectors == IF sec_size >= BUFF_SIZE THEN 1 ELSE BUFF_SIZE \div sec_size

-----------------------------------------------------------------------------
(* The partition table provider *)

\* str.startswith
StartsWith(s, prefix) ==
    /\ Len(s) >= Len(prefix)
    /\ SubSeq(s, 1, Len(prefix)) = prefix

\* disk.partitions: the partitions in disk order
RECURSIVE SortByStart(_)
SortByStart(S) ==
    IF S = {} THEN <<>>
    ELSE LET p == CHOOSE p \in S : \A q \in S : p.start <= q.start
         IN <<p>> \o SortByStart(S \ {p})

partitions(t) == SortByStart(t)

RECURSIVE Gaps(_, _, _)
Gaps(ps, i, from) ==
    IF i > Len(ps)
    THEN IF from <= device_size - 1
         THEN << [start |-> from, end |-> device_size - 1] >>
         ELSE <<>>
    ELSE (IF ps[i].start > from
          THEN << [start |-> from, end |-> ps[i].start - 1] >>
          ELSE <<>>) \o Gaps(ps, i + 1, ps[i].end + 1)

\* disk.getFreeSpaceRegions(): the gaps between the partitions, in disk order
getFreeSpaceRegions(t) == Gaps(partitions(t), 1, 0)

Overlaps(g, p) == g.start <= p.end /\ p.start <= g.end

\* An exact-geometry constraint can be satisfied iff the geometry is a range
\* of the device that collides with no partition other than `self`.
GeometryFits(t, g, self) ==
    /\ 0 <= g.start
    /\ g.start <= g.end
    /\ g.end <= device_size - 1
    /\ \A p \in t \ self : ~Overlaps(g, p)

\* numbering as it would be if a new partition were numbered after the
\* highest number in use
NextNumber_afterHighest(t) ==
    IF t = {} THEN 1
    ELSE (CHOOSE k \in { p.number : p \in t } : \A p \in t : p.number <= k) + 1

\* the number a new primary partition gets: the lowest one not in use
NextNumber(t) ==
    CHOOSE k \in 1..(Cardinality(t) + 1) :
        /\ \A p \in t : p.number # k
        /\ \A j \in 1..(k - 1) : \E p \in t : p.number = j

-----------------------------------------------------------------------------
(* is_free_space *)

\* is_free_space as it would be if only the end sector were tested
is_free_space_endOnly(t, start, end) ==
    LET free_spaces == getFreeSpaceRegions(t)
    IN \E i \in 1..Len(free_spaces) :
           end >= free_spaces[i].start /\ end <= free_spaces[i].end

is_free_space(t, start, end) ==
    LET free_spaces == getFreeSpaceRegions(t)
    IN \E i \in 1..Len(free_spaces) :
           start >= free_spaces[i].start /\ end <= free_spaces[i].end

-----------------------------------------------------------------------------
(* Devices the script is started on *)

\* Partitions of the given types and lengths laid out back to back from
\* sector 0, numbered in disk order, as the bootstrap script leaves them.
RECURSIVE StartOf(_, _)
StartOf(lens, i) == IF i = 1 THEN 0 ELSE StartOf(lens, i - 1) + lens[i - 1]

Layout(types, lens) ==
    { [number |-> i, start |-> StartOf(lens, i),
       end |-> StartOf(lens, i) + lens[i] - 1, fs |-> types[i]]
      : i \in 1..Len(types) }

\* File system types as libparted reports them.  The first two layouts match
\* the template (mkfs.vfat picks the FAT width), the others do not.
TypeLayouts ==
    { <<"fat32", "ext4", "ext4", "fat32">>,
      <<"fat16", "ext4", "ext4", "fat12">>,
      <<"fat32", "ext4", "ext4", "ext4">>,
      <<"fat32", "ext2", "ext4", "fat32">>,
      <<"fat32", "ext4", "ext4">>,
      <<"fat32", "ext4", "ext4", "fat32", "fat32">> }

SectorSizes == {512, 1024 * 1024 * 1024}

StartOn(dev_size, sec, t) ==
    /\ device_size = dev_size
    /\ sec_size = sec
    /\ table = t
    /\ ondisk = t
    /\ uncommitted = 0
    /\ copies = <<>>
    /\ mutations = 0
    /\ pc = "validate"
    /\ err = ""
    /\ n = -1
    /\ new_dynamic_part_size = 0
    /\ free_space = NoGeom
    /\ mv = NoMove
    /\ rs = NoResize
    /\ run = 1
    /\ snap = [completed |-> FALSE, table |-> t, mutations |-> 0, copies |-> 0]

\* A small device: fixed-size partitions of 1..MaxFixedLen sectors, dynamic
\* ones of 1..MaxDynLen sectors, and 0..MaxFree sectors of trailing free space.
SmallInit ==
    \E types \in TypeLayouts, sec \in SectorSizes,
       l1 \in 1..MaxFixedLen, l2 \in 1..MaxDynLen, l3 \in 1..MaxDynLen,
       l4 \in 1..MaxFixedLen, free \in 0..MaxFree :
        LET lens == <<l1, l2, l3, l4, 1>>
            used == StartOf(lens, Len(types) + 1)
        IN StartOn(used + free, sec, Layout(types, lens))

\* The 32 000 000-sector device with 512-byte sectors
ScenarioTable ==
    { [number |-> 1, start |-> 0,        end |-> 204799,   fs |-> "fat16"],
      [number |-> 2, start |-> 204800,   end |-> 10593407, fs |-> "ext4"],
      [number |-> 3, start |-> 10593408, end |-> 20982015, fs |-> "ext4"],
      [number |-> 4, start |-> 20982016, end |-> 21186815, fs |-> "fat16"] }

ScenarioInit == StartOn(32000000, 512, ScenarioTable)

Init == SmallInit \/ ScenarioInit

-----------------------------------------------------------------------------
(* Layout validation, lines 143-152 *)

Die(msg) ==
    /\ pc' = "dead"
    /\ err' = msg

\* the normalization as it would be if only 'fat32' were taken for FAT
FamilyTag_fat32only(fstype) == IF fstype = "fat32" THEN "fat" ELSE fstype

\* 'fat' if p.fileSystem.type.startswith('fat') else p.fileSystem.type
FamilyTag(fstype) == IF StartsWith(fstype, "fat") THEN "fat" ELSE fstype

actual_types(t) ==
    [i \in 1..Len(partitions(t)) |-> FamilyTag(partitions(t)[i].fs)]

expected_types == [i \in 1..Len(PART_TABLE) |-> PART_TABLE[i].fs]

Validate ==
    /\ pc = "validate"
    /\ IF Len(actual_types(table)) > Len(expected_types)
       THEN Die("There are more partitions on the device than expected")
       ELSE IF Len(expected_types) > Len(actual_types(table))
       THEN Die("There are fewer partitions on the device than expected")
       ELSE IF expected_types # actual_types(table)
       THEN Die("The device partitions are of a different type to what was expected")
       ELSE pc' = "allocate" /\ err' = err
    /\ UNCHANGED <<device_size, sec_size, table, ondisk, uncommitted, copies,
                   mutations, n, new_dynamic_part_size, free_space, mv, rs,
                   run, snap>>

-----------------------------------------------------------------------------
(* Space allocation, lines 154-161 *)

\* [ (n, size) for n, (_, _, size) in enumerate(PART_TABLE) if size > 0 ],
\* as the 0-based indices n
dynamic_partitions ==
    { i \in 0..(Len(PART_TABLE) - 1) : PART_TABLE[i + 1].min_size > 0 }

RECURSIVE SortAsc(_)
SortAsc(S) ==
    IF S = {} THEN <<>>
    ELSE LET m == CHOOSE m \in S : \A k \in S : m <= k
         IN <<m>> \o SortAsc(S \ {m})

dynamic_part_nums == SortAsc({ i + 1 : i \in dynamic_partitions })

DynamicNumbers == { dynamic_part_nums[i] : i \in 1..Len(dynamic_part_nums) }

RECURSIVE SumLengths(_)
SumLengths(S) ==
    IF S = {} THEN 0
    ELSE LET p == CHOOSE p \in S : TRUE
         IN getLength(p) + SumLengths(S \ {p})

existing_parts_size(t) ==
    SumLengths({ p \in t : p.number \in DynamicNumbers })

TargetSize(t, free) ==
    (getLength(free) + existing_parts_size(t)) \div Len(dynamic_part_nums)

Allocate ==
    /\ pc = "allocate"
    /\ LET free_spaces == getFreeSpaceRegions(table)
       IN IF Len(free_spaces) = 0
          THEN \* disk.getFreeSpaceRegions()[-1] on an empty list
               /\ Die("IndexError")
               /\ UNCHANGED <<free_space, new_dynamic_part_size, n>>
          ELSE LET last == free_spaces[Len(free_spaces)]
                   size == TargetSize(table, last)
               IN /\ free_space' = last
                  /\ new_dynamic_part_size' = size
                  /\ IF \E i \in dynamic_partitions :
                            PART_TABLE[i + 1].min_size > size
                     THEN /\ Die("Disk is too small to accomodate partitions' required sizes")
                          /\ n' = n
                     ELSE /\ pc' = "loop"
                          /\ err' = err
                          /\ n' = Len(PART_TABLE) - 1
    /\ UNCHANGED <<device_size, sec_size, table, ondisk, uncommitted, copies,
                   mutations, mv, rs, run, snap>>

-----------------------------------------------------------------------------
(* The reconciliation loop, lines 163-184 *)

\* the test of line 171 as it would be if it were left out
NoFreeSpaceAfter_omitted(last, existing_part) == FALSE

\* line 171: the last free region ends before the partition starts
NoFreeSpaceAfter(last, existing_part) == last.end < existing_part.start

\* the anchor test as it would be with >= for >
ShouldMove_anchorToo(existing_part) == existing_part.number >= dynamic_part_nums[1]

\* The first dynamic partition should remain fixed in place (line 178)
ShouldMove(existing_part) == existing_part.number > dynamic_part_nums[1]

NextEntry ==
    /\ pc' = "loop"
    /\ n' = n - 1

\* One pass through the loop header and the decision of lines 164-184; the
\* calls it makes are the steps that follow.
Loop ==
    /\ pc = "loop"
    /\ err' = err
    /\ IF n < 0
       THEN \* the template is exhausted
            /\ pc' = "done"
            /\ UNCHANGED <<n, free_space, mv, rs>>
       ELSE LET free_spaces == getFreeSpaceRegions(table) IN
            IF Len(free_spaces) = 0
            THEN \* No free space left on disk, nothing more to do
                 /\ pc' = "done"
                 /\ UNCHANGED <<n, free_space, mv, rs>>
            ELSE LET last == free_spaces[Len(free_spaces)]
                     min_size == PART_TABLE[n + 1].min_size
                     existing_part == partitions(table)[n + 1]
                 IN /\ free_space' = last
                    /\ IF NoFreeSpaceAfter(last, existing_part)
                       THEN NextEntry /\ UNCHANGED <<mv, rs>>
                       ELSE IF min_size > 0
                       THEN LET new_end == last.end
                                new_start == last.end - new_dynamic_part_size
                            IN /\ rs' = [partition |-> NoPart, end |-> new_end]
                               /\ n' = n
                               /\ IF ShouldMove(existing_part)
                                  THEN /\ mv' = [NoMove EXCEPT
                                                   !.partition = existing_part,
                                                   !.start_arg = new_start,
                                                   !.ret = "resize"]
                                       /\ pc' = "move_partition"
                                  ELSE /\ mv' = NoMove
                                       /\ pc' = "resize_partition"
                       ELSE IF last.start > existing_part.end
                       THEN /\ mv' = [NoMove EXCEPT
                                        !.partition = existing_part,
                                        !.end_arg = last.end,
                                        !.ret = "next"]
                            /\ pc' = "move_partition"
                            /\ UNCHANGED <<n, rs>>
                       ELSE NextEntry /\ UNCHANGED <<mv, rs>>
    /\ UNCHANGED <<device_size, sec_size, table, ondisk, uncommitted, copies,
                   mutations, new_dynamic_part_size, run, snap>>

-----------------------------------------------------------------------------
(* move_partition, lines 75-117, and create_partition, lines 49-62 *)

\* lines 80-85: the destination of a move given start or end (-1 is None)
MoveStart(partition, start, end) ==
    IF start = -1 THEN end - getLength(partition) ELSE start

MoveEnd(partition, start, end) ==
    IF start = -1 THEN end ELSE start + getLength(partition)

\* lines 80-89: compute the destination and confirm that it is free space
MoveCheck ==
    /\ pc = "move_partition"
    /\ LET start == MoveStart(mv.partition, mv.start_arg, mv.end_arg)
           end == MoveEnd(mv.partition, mv.start_arg, mv.end_arg)
       IN /\ mv' = [mv EXCEPT !.start = start, !.end = end, !.written = 0]
          /\ IF ~is_free_space(table, start, end)
             THEN Die("Trying to move partition into a space already occupied")
             ELSE pc' = "copy" /\ err' = err
    /\ UNCHANGED <<device_size, sec_size, table, ondisk, uncommitted, copies,
                   mutations, n, new_dynamic_part_size, free_space, rs, run,
                   snap>>

\* the copy loop as it would be if it stopped after the first buffer
MoveCopy_oneBuffer ==
    /\ pc = "copy"
    /\ LET length == getLength(mv.partition)
           remaining == length - mv.written
           written == mv.written + Min(remaining, ChunkSectors)
           sofar == [src |-> mv.partition.start, dst |-> mv.start,
                     len |-> written]
       IN /\ mv.written < length
          /\ mv' = [mv EXCEPT !.written = written]
          /\ copies' = IF mv.written = 0
                       THEN Append(copies, sofar)
                       ELSE [copies EXCEPT ![Len(copies)] = sofar]
          /\ pc' = "delete"
    /\ mutations' = mutations + 1
    /\ UNCHANGED <<device_size, sec_size, table, ondisk, uncommitted, err, n,
                   new_dynamic_part_size, free_space, rs, run, snap>>

\* lines 98-112: one iteration of the copy loop; length_b is the length of
\* the existing geometry, the loop ends when all of it is written
MoveCopy ==
    /\ pc = "copy"
    /\ LET length == getLength(mv.partition)
           remaining == length - mv.written
           written == mv.written + Min(remaining, ChunkSectors)
           sofar == [src |-> mv.partition.start, dst |-> mv.start,
                     len |-> written]
       IN /\ mv.written < length
          /\ mv' = [mv EXCEPT !.written = written]
          /\ copies' = IF mv.written = 0
                       THEN Append(copies, sofar)
                       ELSE [copies EXCEPT ![Len(copies)] = sofar]
          /\ pc' = IF written < length THEN "copy" ELSE "delete"
    /\ mutations' = mutations + 1
    /\ UNCHANGED <<device_size, sec_size, table, ondisk, uncommitted, err, n,
                   new_dynamic_part_size, free_space, rs, run, snap>>

\* lines 114-115: fscode = partition.fileSystem.type; disk.deletePartition
MoveDelete ==
    /\ pc = "delete"
    /\ mv' = [mv EXCEPT !.fscode = mv.partition.fs]
    /\ table' = table \ {mv.partition}
    /\ uncommitted' = uncommitted + 1
    /\ mutations' = mutations + 1
    /\ pc' = "delete_commit"
    /\ UNCHANGED <<device_size, sec_size, ondisk, copies, err, n,
                   new_dynamic_part_size, free_space, rs, run, snap>>

\* disk.commit(): the in-memory table becomes the table on the device
Commit ==
    /\ ondisk' = table
    /\ uncommitted' = 0

\* move_partition as it would be without the commit of line 116
MoveCommit_skipped ==
    /\ pc = "delete_commit"
    /\ UNCHANGED <<ondisk, uncommitted>>
    /\ pc' = "create_partition"
    /\ UNCHANGED <<device_size, sec_size, table, copies, mutations, err, n,
                   new_dynamic_part_size, free_space, mv, rs, run, snap>>

\* line 116
MoveCommit ==
    /\ pc = "delete_commit"
    /\ Commit
    /\ pc' = "create_partition"
    /\ UNCHANGED <<device_size, sec_size, table, copies, mutations, err, n,
                   new_dynamic_part_size, free_space, mv, rs, run, snap>>

\* lines 51-59: disk.addPartition with Constraint(exactGeom=geometry)
CreateAdd ==
    /\ pc = "create_partition"
    /\ LET geometry == [start |-> mv.start, end |-> mv.end]
           new_partition == [number |-> NextNumber(table),
                             start |-> mv.start, end |-> mv.end,
                             fs |-> mv.fscode]
       IN IF ~GeometryFits(table, geometry, {})
          THEN /\ Die("Creating partition failed")
               /\ UNCHANGED <<table, uncommitted, mutations>>
          ELSE /\ table' = table \cup {new_partition}
               /\ uncommitted' = uncommitted + 1
               /\ mutations' = mutations + 1
               /\ pc' = "create_commit"
               /\ err' = err
    /\ UNCHANGED <<device_size, sec_size, ondisk, copies, n,
                   new_dynamic_part_size, free_space, mv, rs, run, snap>>

\* line 60 (fstype is None, no mkfs), then back in the loop: a dynamic
\* partition goes on to line 181, a fixed-size one to the next entry
CreateCommit ==
    /\ pc = "create_commit"
    /\ Commit
    /\ IF mv.ret = "resize"
       THEN pc' = "resize_partition" /\ n' = n
       ELSE NextEntry
    /\ UNCHANGED <<device_size, sec_size, table, copies, mutations, err,
                   new_dynamic_part_size, free_space, mv, rs, run, snap>>

-----------------------------------------------------------------------------
(* resize_partition, lines 64-73 *)

\* line 181 re-fetches disk.partitions[n]; lines 66-70: disk.maximizePartition
\* with Constraint(exactGeom=new_geometry), start kept
ResizeMaximize ==
    /\ pc = "resize_partition"
    /\ LET partition == partitions(table)[n + 1]
           new_geometry == [start |-> partition.start, end |-> rs.end]
       IN /\ rs' = [rs EXCEPT !.partition = partition]
          /\ IF ~GeometryFits(table, new_geometry, {partition})
             THEN /\ Die("Partition resize failed")
                  /\ UNCHANGED <<table, uncommitted, mutations>>
             ELSE /\ table' = (table \ {partition}) \cup
                                {[partition EXCEPT !.end = rs.end]}
                  /\ uncommitted' = uncommitted + 1
                  /\ mutations' = mutations + 1
                  /\ pc' = "resize_commit"
                  /\ err' = err
    /\ UNCHANGED <<device_size, sec_size, ondisk, copies, n,
                   new_dynamic_part_size, free_space, mv, run, snap>>

\* lines 69-70: the table provider refuses the change for a reason of its
\* own; maximizePartition returns false, the table stays as it is
ResizeRefused ==
    /\ pc = "resize_partition"
    /\ rs' = [rs EXCEPT !.partition = partitions(table)[n + 1]]
    /\ Die("Partition resize failed")
    /\ UNCHANGED <<device_size, sec_size, table, ondisk, uncommitted, copies,
                   mutations, n, new_dynamic_part_size, free_space, mv, run,
                   snap>>

\* resize_partition as it would be without the commit of line 71
ResizeCommit_skipped ==
    /\ pc = "resize_commit"
    /\ UNCHANGED <<ondisk, uncommitted>>
    /\ pc' = "resize2fs"
    /\ UNCHANGED <<device_size, sec_size, table, copies, mutations, err, n,
                   new_dynamic_part_size, free_space, mv, rs, run, snap>>

\* line 71
ResizeCommit ==
    /\ pc = "resize_commit"
    /\ Commit
    /\ pc' = "resize2fs"
    /\ UNCHANGED <<device_size, sec_size, table, copies, mutations, err, n,
                   new_dynamic_part_size, free_space, mv, rs, run, snap>>

\* line 73: resize2fs succeeds, the loop goes on to the next entry
GrowFilesystem ==
    /\ pc = "resize2fs"
    /\ NextEntry
    /\ UNCHANGED <<device_size, sec_size, table, ondisk, uncommitted, copies,
                   mutations, err, new_dynamic_part_size, free_space, mv, rs,
                   run, snap>>

\* line 73 with lines 28-30: resize2fs exits non-zero and sh() dies
GrowFilesystemFails ==
    /\ pc = "resize2fs"
    /\ Die("/usr/sbin/resize2fs did not complete successfully")
    /\ UNCHANGED <<device_size, sec_size, table, ondisk, uncommitted, copies,
                   mutations, n, new_dynamic_part_size, free_space, mv, rs,
                   run, snap>>

-----------------------------------------------------------------------------
(* The script is started again on the device as the last run left it *)

Rerun ==
    /\ pc \in {"done", "dead"}
    /\ run < MaxRuns
    /\ run' = run + 1
    /\ snap' = [completed |-> (pc = "done"), table |-> ondisk,
                mutations |-> mutations, copies |-> Len(copies)]
    /\ table' = ondisk
    /\ uncommitted' = 0
    /\ pc' = "validate"
    /\ err' = ""
    /\ n' = -1
    /\ new_dynamic_part_size' = 0
    /\ free_space' = NoGeom
    /\ mv' = NoMove
    /\ rs' = NoResize
    /\ UNCHANGED <<device_size, sec_size, ondisk, copies, mutations>>

Next ==
    \/ Validate
    \/ Allocate
    \/ Loop
    \/ MoveCheck
    \/ MoveCopy
    \/ MoveDelete
    \/ MoveCommit
    \/ CreateAdd
    \/ CreateCommit
    \/ ResizeMaximize
    \/ ResizeRefused
    \/ ResizeCommit
    \/ GrowFilesystem
    \/ GrowFilesystemFails
    \/ Rerun

Spec == Init /\ [][Next]_vars

-----------------------------------------------------------------------------
(* Vocabulary of the properties, stated without the script's own helpers *)

OccupiedMsg == "Trying to move partition into a space already occupied"
Resize2fsMsg == "/usr/sbin/resize2fs did not complete successfully"
ResizeFailedMsg == "Partition resize failed"

\* the failures that come from the table provider or the file system tool
ExternalFailureMsgs == {Resize2fsMsg, ResizeFailedMsg}
ValidationMsgs ==
    { "There are more partitions on the device than expected",
      "There are fewer partitions on the device than expected",
      "The device partitions are of a different type to what was expected" }

IsFat(fstype) == fstype \in {"fat12", "fat16", "fat32"}

\* the table has the template's count and, position by position, its families
MatchesTemplate(t) ==
    /\ Cardinality(t) = Len(PART_TABLE)
    /\ \A i \in 1..Len(PART_TABLE) :
          LET p == partitions(t)[i]
          IN IF PART_TABLE[i].fs = "fat" THEN IsFat(p.fs)
             ELSE p.fs = PART_TABLE[i].fs

\* the first sector after the last partition
EndOfPartitions(t) ==
    IF t = {} THEN 0
    ELSE LET last == CHOOSE p \in t : \A q \in t : q.end <= p.end
         IN last.end + 1

\* length of the free space behind the last partition
TrailingFree(t) == device_size - EndOfPartitions(t)

\* the partitions lie back to back from sector 0 and free space follows them
ContiguousWithTrailingFree(t) ==
    /\ \A p \in t : p.start = 0 \/ \E q \in t : q.end + 1 = p.start
    /\ \A p \in t, q \in t : p # q => (p.end < q.start \/ q.end < p.start)
    /\ TrailingFree(t) > 0

\* F: the length of the last free-space region, 0 when the device has none
LastFreeLength(t) ==
    LET free_spaces == getFreeSpaceRegions(t)
    IN IF Len(free_spaces) = 0 THEN 0
       ELSE getLength(free_spaces[Len(free_spaces)])

\* floor((F + sum of the dynamic partitions' lengths) / N)
ClaimedTarget(t) ==
    (LastFreeLength(t)
       + SumLengths({ p \in t : /\ p.number \in 1..Len(PART_TABLE)
                                /\ PART_TABLE[p.number].min_size > 0 }))
    \div Cardinality({ i \in 1..Len(PART_TABLE) : PART_TABLE[i].min_size > 0 })

TargetBelowSomeMinimum(t) ==
    \E i \in 1..Len(PART_TABLE) :
        PART_TABLE[i].min_size > 0 /\ ClaimedTarget(t) < PART_TABLE[i].min_size

\* the run was started on a device the contract covers
ValidStartup ==
    /\ MatchesTemplate(snap.table)
    /\ ContiguousWithTrailingFree(snap.table)
    /\ ~TargetBelowSomeMinimum(snap.table)

\* every sector of [start, end] is a sector of the device in no partition
RangeIsFree(t, start, end) ==
    /\ 0 <= start
    /\ start <= end
    /\ end <= device_size - 1
    /\ \A p \in t : end < p.start \/ p.end < start

RangeHitsPartition(t, start, end) ==
    \E p \in t : start <= p.end /\ p.start <= end

AnchorNumber == CHOOSE k \in DynamicNumbers : \A j \in DynamicNumbers : k <= j

PartitionNumbered(t, k) == CHOOSE p \in t : p.number = k

-----------------------------------------------------------------------------
(* The claims *)

\* C1: a run started on a device whose partitions match the template, lie
\* back to back with trailing free space, and whose target size is at least
\* every minimum, is ended by no fatal error of the script (only a failing
\* resize2fs or table provider can end it), and when it is done no free-space
\* region is left.
C1_ValidRunCompletes ==
    ValidStartup =>
        /\ pc = "dead" => err \in ExternalFailureMsgs
        /\ pc = "done" => Len(getFreeSpaceRegions(ondisk)) = 0

\* C2: on the 32 000 000-sector device the target is 15 795 200 sectors, no
\* step of the script ends the run, and at the end partition 4 lies at the
\* device's tail, partitions 3 and 2 are 15 795 200 sectors long, partition 2
\* starts where it started and partition 1 is where it was.
C2_ScenarioCompletes ==
    (run = 1 /\ snap.table = ScenarioTable /\ device_size = 32000000) =>
        /\ pc \notin {"validate", "allocate"} => new_dynamic_part_size = 15795200
        /\ pc = "dead" => err \in ExternalFailureMsgs
        /\ pc = "done" =>
             /\ PartitionNumbered(ondisk, 4).end = device_size - 1
             /\ getLength(PartitionNumbered(ondisk, 4)) = 204800
             /\ getLength(PartitionNumbered(ondisk, 3)) = 15795200
             /\ getLength(PartitionNumbered(ondisk, 2)) = 15795200
             /\ PartitionNumbered(ondisk, 2).start = 204800
             /\ PartitionNumbered(ondisk, 1) = PartitionNumbered(ScenarioTable, 1)

\* C3: a step of move_partition writes bytes only while the whole destination
\* range is free in the table as it is now, and a move whose destination
\* touches any partition of the current table (the moved one included) ends
\* in the 'already occupied' error with nothing written, deleted or created.
C3_MoveOnlyIntoFreeSpace ==
    [][ /\ copies' # copies => RangeIsFree(table, mv.start, mv.end)
        /\ pc = "move_partition" =>
             LET start == MoveStart(mv.partition, mv.start_arg, mv.end_arg)
                 end == MoveEnd(mv.partition, mv.start_arg, mv.end_arg)
             IN /\ pc' = "copy" => RangeIsFree(table, start, end)
                /\ RangeHitsPartition(table, start, end) =>
                     /\ pc' = "dead"
                     /\ err' = OccupiedMsg
                     /\ UNCHANGED <<table, ondisk, copies, mutations>>
      ]_vars

C3_Witness ==
    /\ pc = "copy"
    /\ mv.written > 0
    /\ RangeIsFree(table, mv.start, mv.end)

\* C4: when a run is done, every dynamic partition is exactly as long as the
\* target size computed at startup, and every fixed-size partition ends
\* where it ended or was moved without being resized.
C4_DynamicPartitionsGetTarget ==
    /\ (pc = "done" /\ MatchesTemplate(snap.table)) =>
          \A p \in ondisk :
              p.number \in DynamicNumbers =>
                  getLength(p) = new_dynamic_part_size
    /\ rs.partition # NoPart => rs.partition.number \in DynamicNumbers

\* C5: the lowest-numbered dynamic partition starts, in every committed
\* table, at the sector it started at when the run began, and it is never
\* the partition handed to move_partition.
C5_AnchorStaysInPlace ==
    /\ \A p \in snap.table :
          p.number = AnchorNumber =>
              \E q \in ondisk :
                  q.number = AnchorNumber /\ q.start = p.start /\ q.fs = p.fs
    /\ mv.partition.number # AnchorNumber

C5_Witness ==
    /\ pc = "done"
    /\ \E p \in snap.table, q \in ondisk :
          /\ p.number = AnchorNumber
          /\ q.number = AnchorNumber
          /\ q.start = p.start
          /\ q.end > p.end

\* C6: validation of a table whose count or whose family sequence differs
\* from the template ends the run in a fatal error with the table, the
\* device contents and the committed table untouched; a table that differs
\* only in the FAT width goes on to the space allocation.
C6_ValidationAllOrNothing ==
    [][ pc = "validate" =>
          /\ ~MatchesTemplate(table) =>
               /\ pc' = "dead"
               /\ err' \in ValidationMsgs
               /\ UNCHANGED <<table, ondisk, copies, mutations, uncommitted>>
          /\ MatchesTemplate(table) =>
               /\ pc' = "allocate"
               /\ UNCHANGED <<table, ondisk, copies, mutations, uncommitted>>
      ]_vars

C6_Witness ==
    /\ pc = "dead"
    /\ err = "The device partitions are of a different type to what was expected"
    /\ run = 1
    /\ mutations = 0
    /\ ondisk = snap.table

\* C7: the space allocation computes floor((F + sum of the dynamic lengths)
\* / N) with F the length of the last free-space region (0 if there is none),
\* and it ends the run in a fatal error, with nothing changed, exactly when
\* that target is below some dynamic entry's minimum.
C7_TargetAndSizingCheck ==
    [][ pc = "allocate" =>
          /\ pc' = "dead" <=> TargetBelowSomeMinimum(table)
          /\ pc' # "dead" => new_dynamic_part_size' = ClaimedTarget(table)
          /\ UNCHANGED <<table, ondisk, copies, mutations>>
      ]_vars

\* C8: a run started on the device left by a run that completed changes
\* nothing: no chunk is written and no table entry deleted, created or
\* resized, so the table stays the one the first run left.
C8_SecondRunChangesNothing ==
    (run > 1 /\ snap.completed) =>
        /\ mutations = snap.mutations
        /\ ondisk = snap.table
        /\ table = snap.table

C8_Witness ==
    /\ run > 1
    /\ snap.completed
    /\ pc \in {"done", "dead"}
    /\ snap.mutations > 0

\* C9: a structural change is committed before the next structural change
\* and before the next free-space query: at most one change is ever
\* uncommitted, and none is where the script queries or changes the table.
C9_CommitAfterEveryChange ==
    /\ uncommitted <= 1
    /\ pc \in {"validate", "allocate", "loop", "move_partition", "copy",
               "delete", "create_partition", "resize_partition",
               "resize2fs", "done", "dead"} =>
           uncommitted = 0 /\ ondisk = table

C9_Witness ==
    /\ pc = "create_partition"
    /\ uncommitted = 0
    /\ mv.partition \notin ondisk
    /\ ondisk = table

\* C10: the entry move_partition creates is as long as the entry it replaces.
C10_MovePreservesLength ==
    pc = "create_commit" =>
        \E p \in table :
            /\ p.start = mv.start
            /\ p.end = mv.end
            /\ getLength(p) = getLength(mv.partition)

\* the sectors written so far by the copy in progress
WrittenSoFar == [start |-> mv.start, end |-> mv.start + mv.written - 1]

\* C11: a move checks its destination, copies all of the partition, deletes
\* the old entry, commits, creates the new entry and commits, in this order.
\* While the copy runs the committed table still holds the old entry, no
\* sector of a committed partition has been written, and no table entry
\* refers to the destination.
C11_MoveStepsInOrder ==
    /\ pc = "copy" =>
         /\ mv.partition \in ondisk
         /\ ondisk = table
         /\ mv.written < getLength(mv.partition)
         /\ mv.written > 0 =>
              /\ ~RangeHitsPartition(ondisk, WrittenSoFar.start, WrittenSoFar.end)
              /\ copies[Len(copies)] = [src |-> mv.partition.start,
                                       dst |-> mv.start, len |-> mv.written]
         /\ ~RangeHitsPartition(ondisk, mv.start, mv.end)
         /\ ~RangeHitsPartition(table, mv.start, mv.end)
    /\ pc = "delete" =>
         /\ mv.written = getLength(mv.partition)
         /\ mv.partition \in ondisk
         /\ mv.partition \in table
    /\ pc = "delete_commit" =>
         /\ mv.written = getLength(mv.partition)
         /\ mv.partition \in ondisk
         /\ mv.partition \notin table
         /\ ~RangeHitsPartition(table, mv.start, mv.end)
    /\ pc = "create_partition" =>
         /\ mv.partition \notin ondisk
         /\ ondisk = table
         /\ ~RangeHitsPartition(table, mv.start, mv.end)
    /\ pc = "create_commit" =>
         /\ \E p \in table : p.start = mv.start /\ p.end = mv.end
         /\ ~RangeHitsPartition(ondisk, mv.start, mv.end)
         /\ mv.partition \notin table

C11_Witness ==
    /\ pc = "copy"
    /\ mv.written > 0
    /\ mv.written < getLength(mv.partition)
    /\ mv.partition \in ondisk

\* the copies made since this run started
CopiedThisRun == { copies[i] : i \in (snap.copies + 1)..Len(copies) }

\* C12: the loop variable only steps downwards, and whenever an iteration
\* goes on to move or resize an entry, the free region it uses lies behind
\* that entry and every lower one, and in front of every higher entry and of
\* everything the earlier iterations of the run wrote.
C12_ReverseOrderDiscipline ==
    [][ /\ (pc \in {"loop", "create_commit", "resize2fs"} /\ run' = run) =>
              n' \in {n, n - 1}
        /\ (pc = "loop" /\ pc' \in {"move_partition", "resize_partition"}) =>
              LET ps == partitions(table)
              IN /\ \A i \in 1..(n + 1) : ps[i].end < free_space'.start
                 /\ \A i \in (n + 2)..Len(ps) : free_space'.end < ps[i].start
                 /\ \A c \in CopiedThisRun : free_space'.end < c.dst
      ]_vars

C12_Witness ==
    /\ pc = "resize_partition"
    /\ n = 1
    /\ CopiedThisRun # {}
    /\ \A c \in CopiedThisRun : free_space.end < c.dst
    /\ \A p \in table : p.number > 2 => free_space.end < p.start

\* the partitions lie back to back from sector 0
Contiguous(t) ==
    /\ \A p \in t : p.start = 0 \/ \E q \in t : q.end + 1 = p.start
    /\ \A p \in t, q \in t : p # q => (p.end < q.start \/ q.end < p.start)

\* the leading partition of the device the run was started on
LeadingPartition == partitions(snap.table)[1]

\* C13: in a run started on a contiguous layout that matches the template,
\* the leading fixed-size partition, the one in front of the anchor, is
\* never handed to move_partition or resize_partition and keeps its start
\* and end in the table, committed or not.
C13_LeadingPartitionUntouched ==
    (MatchesTemplate(snap.table) /\ Contiguous(snap.table)) =>
        /\ LeadingPartition \in ondisk
        /\ LeadingPartition \in table
        /\ mv.partition.number # LeadingPartition.number
        /\ rs.partition.number # LeadingPartition.number

C13_Witness ==
    /\ MatchesTemplate(snap.table)
    /\ Contiguous(snap.table)
    /\ pc = "done"
    /\ n = 0
    /\ Len(copies) > snap.copies
    /\ LeadingPartition \in ondisk

\* C14: a run started on a device that matches the template, has no
\* free-space region at all and has dynamic partitions of at least the
\* minimum size, is ended by no error and changes nothing.
C14_FullDeviceConverges ==
    ( /\ MatchesTemplate(snap.table)
      /\ Len(getFreeSpaceRegions(snap.table)) = 0
      /\ ~TargetBelowSomeMinimum(snap.table) ) =>
        /\ pc # "dead"
        /\ table = snap.table
        /\ mutations = snap.mutations

\* the entry resize_partition makes of the partition it was given
Resized == [rs.partition EXCEPT !.end = rs.end]

\* C15: resize_partition keeps the start and sets the end to the requested
\* sector, commits, and only then grows the file system.  A refused table
\* change ends the run with the table as it was; a failed grow ends it with
\* the resized entry committed.
C15_ResizeThenGrow ==
    /\ pc = "resize_commit" =>
         /\ Resized \in table
         /\ rs.partition \in ondisk
         /\ ondisk = (table \ {Resized}) \cup {rs.partition}
    /\ pc = "resize2fs" =>
         /\ Resized \in ondisk
         /\ ondisk = table
    /\ (pc = "dead" /\ err = Resize2fsMsg) =>
         /\ Resized \in ondisk
         /\ ondisk = table
    /\ (pc = "dead" /\ err = ResizeFailedMsg) =>
         /\ rs.partition \in ondisk
         /\ ondisk = table

C15_Witness ==
    /\ pc = "dead"
    /\ err = Resize2fsMsg
    /\ Resized \in ondisk
    /\ rs.partition.start = Resized.start
    /\ rs.partition.end < Resized.end

\* C16: when a run is done, every dynamic partition is at least as long as
\* the minimum size of its template entry.
C16_DynamicAtLeastMinimum ==
    (pc = "done" /\ MatchesTemplate(snap.table)) =>
        \A p \in ondisk :
            PART_TABLE[p.number].min_size > 0 =>
                getLength(p) >= PART_TABLE[p.number].min_size

-----------------------------------------------------------------------------
(* Contents of the device *)

MaxSampled == 4

\* Every sector holds at first a content of its own, named by the sector's
\* number.  Origin(s, k, w) names the content of sector s once the first
\* k - 1 copies are complete and the first w sectors of copy k are written:
\* a sector of the written part holds what its source sector held when the
\* buffer it belongs to was read (lines 104-108 read and write buffer by
\* buffer, so a source sector the same copy has already overwritten is read
\* with its new content).
RECURSIVE Origin(_, _, _)
Origin(s, k, w) ==
    IF k = 0 THEN s
    ELSE IF w = 0
    THEN IF k = 1 THEN s ELSE Origin(s, k - 1, copies[k - 1].len)
    ELSE LET c == copies[k]
             off == s - c.dst
         IN IF off >= 0 /\ off < w
            THEN Origin(c.src + off, k, (off \div ChunkSectors) * ChunkSectors)
            ELSE Origin(s, k, 0)

CopiedLength(k) == IF k = 0 THEN 0 ELSE copies[k].len

\* what sector s holds now, and what it held when this run started
ContentNow(s) == Origin(s, Len(copies), CopiedLength(Len(copies)))
ContentAtStart(s) == Origin(s, snap.copies, CopiedLength(snap.copies))

\* the offsets looked at in a range of the given length: all of them up to
\* 2 * MaxSampled sectors, the first and the last MaxSampled beyond that
Offsets(length) ==
    (0..(Min(length, MaxSampled) - 1))
       \cup ((length - Min(length, MaxSampled))..(length - 1))

\* C17: the copy loop ends having written exactly the partition's length,
\* sector i of the old range to sector i of the new one, and at any point of
\* a run every committed partition read from its current start holds, over
\* the length it had when the run started, what it held then.
C17_DataPreserved ==
    /\ pc = "delete" =>
         /\ copies[Len(copies)] = [src |-> mv.partition.start, dst |-> mv.start,
                                   len |-> getLength(mv.partition)]
         /\ \A i \in Offsets(getLength(mv.partition)) :
               ContentNow(mv.start + i)
                 = Origin(mv.partition.start + i, Len(copies), 0)
    /\ \A p \in snap.table, q \in ondisk :
          q.number = p.number =>
              \A i \in Offsets(getLength(p)) :
                  ContentNow(q.start + i) = ContentAtStart(p.start + i)

C17_Witness ==
    /\ pc = "done"
    /\ Len(copies) >= snap.copies + 2
    /\ \E p \in snap.table, q \in ondisk :
          /\ q.number = p.number
          /\ p.number = 3
          /\ q.start > p.end
          /\ \A i \in Offsets(getLength(p)) :
                ContentNow(q.start + i) = ContentAtStart(p.start + i)

-----------------------------------------------------------------------------

\* C18: at the start of every loop iteration and when the run is done, the
\* table has the template's count and family sequence, its partitions are
\* pairwise disjoint and inside the device, and partition number k is the
\* k-th in disk order; the entry a move creates has the number and the file
\* system type of the entry it replaces.
C18_TableShape ==
    /\ pc \in {"loop", "done"} =>
         /\ MatchesTemplate(table)
         /\ \A p \in table : 0 <= p.start /\ p.start <= p.end
                              /\ p.end <= device_size - 1
         /\ \A p \in table, q \in table :
               p # q => (p.end < q.start \/ q.end < p.start)
         /\ \A k \in 1..Len(PART_TABLE) : partitions(table)[k].number = k
    /\ pc = "create_commit" =>
         \E p \in table :
             /\ p.start = mv.start
             /\ p.number = mv.partition.number
             /\ p.fs = mv.partition.fs
             /\ Cardinality(table) = Len(PART_TABLE)

C18_Witness ==
    /\ pc = "loop"
    /\ n = 1
    /\ Len(copies) >= snap.copies + 2
    /\ MatchesTemplate(table)
    /\ \A k \in 1..Len(PART_TABLE) : partitions(table)[k].number = k
    /\ \E p \in table, q \in snap.table :
          p.number = 3 /\ q.number = 3 /\ p.start # q.start /\ p.fs = q.fs

====
